---- MODULE Spec2Model ----
(***************************************************************************)
(* Model of src/html.rs of hyperlink: the path canonicalizer               *)
(* (push_and_canonicalize), the document identity (Document::new,          *)
(* Document::join) and the link scanner (Document::links_from_read).       *)
(*                                                                         *)
(* A Rust string is a sequence of one-character strings, so that           *)
(* starts_with, rfind, split and truncate work on characters as the code   *)
(* does.  Option<T> is a sequence: None is <<>> and Some(x) is <<x>>.       *)
(***************************************************************************)
EXTENDS Integers, Sequences, FiniteSets, TLC

VARIABLES
    args,               \* the arguments of the function call being made
    ret,                \* Option: the value the call left or returned
    doc,                \* the Document being scanned
    check_anchors,      \* links_from_read's flag
    get_paragraphs,     \* links_from_read's flag
    sink,               \* the caller's Vec<Link>
    last_paragraph_i,   \* links_from_read's local
    in_paragraph,       \* links_from_read's local
    paragraph_walker,   \* links_from_read's local: the text accumulated so far
    pc,                 \* where links_from_read stands
    initial_length,     \* history: sink.len() when the scan was called
    emitted,            \* history: for each sink entry, how it was emitted
    last,               \* history: the last token processed, when it is an
                        \* end tag
    opened              \* history: the last paragraph-bearing open tag, while
                        \* no paragraph-bearing close tag has come behind it:
                        \* its name, the text tokens since, and the sink's
                        \* length at the first such open tag

vars == <<args, ret, doc, check_anchors, get_paragraphs, sink, last_paragraph_i,
          in_paragraph, paragraph_walker, pc, initial_length, emitted, last,
          opened>>

(***************************************************************************)
(* Option<T>                                                               *)
(***************************************************************************)
None == <<>>
Some(x) == <<x>>
unwrap_or(opt, default) == IF opt = None THEN default ELSE opt[1]

(***************************************************************************)
(* str / String operations, as the standard library defines them.          *)
(* Indices are 0-based byte offsets as in Rust; all characters are ASCII.  *)
(***************************************************************************)
starts_with(s, prefix) ==
    /\ Len(s) >= Len(prefix)
    /\ SubSeq(s, 1, Len(prefix)) = prefix

ends_with(s, c) == Len(s) > 0 /\ s[Len(s)] = c

\* the offset of the first character of s that is in the set cs
find(s, cs) ==
    IF \E i \in 1..Len(s) : s[i] \in cs
    THEN Some((CHOOSE i \in 1..Len(s) :
                  /\ s[i] \in cs
                  /\ \A j \in 1..(i - 1) : s[j] \notin cs) - 1)
    ELSE None

\* the offset of the last occurrence of the character c in s
rfind(s, c) ==
    IF \E i \in 1..Len(s) : s[i] = c
    THEN Some((CHOOSE i \in 1..Len(s) :
                  /\ s[i] = c
                  /\ \A j \in (i + 1)..Len(s) : s[j] # c) - 1)
    ELSE None

truncate(s, new_len) == SubSeq(s, 1, new_len)

\* &s[from..]
slice_from(s, from) == SubSeq(s, from + 1, Len(s))

\* &s[..to]
slice_to(s, to) == SubSeq(s, 1, to)

\* s.split(c): the pieces between the occurrences of c, empty pieces included
RECURSIVE split(_, _)
split(s, c) ==
    LET i == find(s, {c})
    IN  IF i = None
        THEN <<s>>
        ELSE <<slice_to(s, i[1])>> \o split(slice_from(s, i[1] + 1), c)

(***************************************************************************)
(* push_and_canonicalize                                                   *)
(***************************************************************************)
\* a bug a canonicalizer could have: ".." is pushed like any other segment
push_component_keeps_dotdot(base, component) ==
    IF component = <<>> \/ component = <<".">>
    THEN base
    ELSE (IF base # <<>> THEN Append(base, "/") ELSE base) \o component

\* the body of the loop over path.split('/')
push_component(base, component) ==
    IF component = <<>> \/ component = <<".">>
    THEN base
    ELSE IF component = <<".", ".">>
    THEN truncate(base, unwrap_or(rfind(base, "/"), 0))
    ELSE (IF base # <<>> THEN Append(base, "/") ELSE base) \o component

RECURSIVE push_components(_, _)
push_components(base, components) ==
    IF components = <<>>
    THEN base
    ELSE push_components(push_component(base, Head(components)), Tail(components))

\* a bug the canonicalizer could have: a relative path is pushed onto the whole
\* base, the base's last segment not cut off first
push_and_canonicalize_keeps_file(base, path) ==
    IF starts_with(path, <<"/">>)
    THEN push_components(<<>>, split(path, "/"))
    ELSE IF path = <<>>
    THEN (IF ends_with(base, "/") THEN truncate(base, Len(base) - 1) ELSE base)
    ELSE push_components(base, split(path, "/"))

\* a bug the canonicalizer could have: the empty path is not a case of its
\* own, so that it cuts the base's last segment off
push_and_canonicalize_without_empty(base, path) ==
    IF starts_with(path, <<"/">>)
    THEN push_components(<<>>, split(path, "/"))
    ELSE push_components(truncate(base, unwrap_or(rfind(base, "/"), 0)),
                         split(path, "/"))

push_and_canonicalize(base, path) ==
    IF starts_with(path, <<"/">>)
    THEN push_components(<<>>, split(path, "/"))
    ELSE IF path = <<>>
    THEN (IF ends_with(base, "/") THEN truncate(base, Len(base) - 1) ELSE base)
    ELSE push_components(truncate(base, unwrap_or(rfind(base, "/"), 0)),
                         split(path, "/"))

(***************************************************************************)
(* std::path::Path, on Unix: a path is a string; its components are the    *)
(* pieces between '/', the empty pieces and the "." pieces dropped, with a *)
(* RootDir component for a leading '/' and a CurDir component for a        *)
(* leading ".".  The methods return slices of the path they are given.     *)
(***************************************************************************)
RootDir == <<"/">>
CurDir == <<".">>

has_root(p) == starts_with(p, <<"/">>)

include_cur_dir(p) ==
    ~has_root(p) /\ (p = <<".">> \/ starts_with(p, <<".", "/">>))

\* the number of bytes of p before its body: the root or the leading "."
len_before_body(p) == IF has_root(p) \/ include_cur_dir(p) THEN 1 ELSE 0

is_component(c) == c # <<>> /\ c # <<".">>

components(p) ==
    (IF has_root(p) THEN <<RootDir>>
     ELSE IF include_cur_dir(p) THEN <<CurDir>> ELSE <<>>)
    \o SelectSeq(split(slice_from(p, len_before_body(p)), "/"), is_component)

\* Components::trim_left: drop the separators and "." pieces a body starts with
RECURSIVE trim_left(_)
trim_left(s) ==
    IF starts_with(s, <<"/">>) THEN trim_left(slice_from(s, 1))
    ELSE IF s = <<".">> THEN <<>>
    ELSE IF starts_with(s, <<".", "/">>) THEN trim_left(slice_from(s, 2))
    ELSE s

\* Components::trim_right: drop the separators and "." pieces the path ends
\* with, never going into the first keep bytes
RECURSIVE trim_right(_, _)
trim_right(s, keep) ==
    IF Len(s) <= keep THEN s
    ELSE IF ends_with(s, "/") THEN trim_right(truncate(s, Len(s) - 1), keep)
    ELSE IF s[Len(s)] = "." /\ (Len(s) - 1 = keep \/ s[Len(s) - 1] = "/")
    THEN trim_right(truncate(s, Len(s) - 1), keep)
    ELSE s

\* the body s without its first component (s starts with that component)
drop_front_component(s) == slice_from(s, unwrap_or(find(s, {"/"}), Len(s)))

\* what is left of the body s after n components were taken from its front
RECURSIVE skip_front(_, _)
skip_front(s, n) ==
    IF n = 0 THEN s
    ELSE skip_front(drop_front_component(trim_left(s)), n - 1)

\* Components::as_path after n components were taken from the front of p
as_path_after(p, n) ==
    IF n = 0
    THEN trim_right(p, len_before_body(p))
    ELSE LET body == slice_from(p, len_before_body(p))
             taken == IF len_before_body(p) = 1 THEN n - 1 ELSE n
         IN  trim_right(trim_left(skip_front(body, taken)), 0)

is_prefix(short, long) ==
    Len(short) <= Len(long) /\ SubSeq(long, 1, Len(short)) = short

is_suffix(short, long) ==
    /\ Len(short) <= Len(long)
    /\ SubSeq(long, Len(long) - Len(short) + 1, Len(long)) = short

\* Path::strip_prefix: Ok(rest) is Some(rest), Err(StripPrefixError) is None
strip_prefix(p, base) ==
    IF is_prefix(components(base), components(p))
    THEN Some(as_path_after(p, Len(components(base))))
    ELSE None

\* Path::ends_with
path_ends_with(p, child) == is_suffix(components(child), components(p))

\* Path::parent
parent(p) ==
    LET comps == components(p)
        keep == len_before_body(p)
        whole == trim_right(p, keep)
        cut == unwrap_or(rfind(slice_from(whole, keep), "/"), -1) + 1 + keep
    IN  IF comps = <<>> \/ comps[Len(comps)] = RootDir
        THEN None
        ELSE IF Len(comps) = 1 /\ comps[1] = CurDir
        THEN Some(<<>>)
        ELSE Some(trim_right(truncate(whole, cut), keep))

(***************************************************************************)
(* Document                                                                *)
(***************************************************************************)
index_html == <<"i", "n", "d", "e", "x", ".", "h", "t", "m", "l">>
index_htm == <<"i", "n", "d", "e", "x", ".", "h", "t", "m">>

\* cfg!(windows): the model is of a Unix build
cfg_windows == FALSE

\* the loop of Document::new that replaces every '\' by '/'
replace_backslashes(s) == [i \in 1..Len(s) |-> IF s[i] = "\\" THEN "/" ELSE s[i]]

\* a bug Document::new could have: the index file name is kept in the href
Document_new_keeps_index(base_path, path) ==
    LET stripped == strip_prefix(path, base_path)
        is_index_html == \/ path_ends_with(stripped[1], index_html)
                         \/ path_ends_with(stripped[1], index_htm)
    IN  IF stripped = None
        THEN [panic |-> "base_path is not a base of path"]
        ELSE [path |-> path, href |-> stripped[1], is_index_html |-> is_index_html]

\* Document::new; a failed expect() is a panic
Document_new(base_path, path) ==
    LET stripped == strip_prefix(path, base_path)
        is_index_html == \/ path_ends_with(stripped[1], index_html)
                         \/ path_ends_with(stripped[1], index_htm)
        href_path == IF is_index_html
                     THEN unwrap_or(parent(stripped[1]), stripped[1])
                     ELSE stripped[1]
        href == IF cfg_windows THEN replace_backslashes(href_path) ELSE href_path
    IN  IF stripped = None
        THEN [panic |-> "base_path is not a base of path"]
        ELSE [path |-> path, href |-> href, is_index_html |-> is_index_html]

\* a bug join could have: the fragment is appended whatever preserve_anchor is
join_always_anchor(self, preserve_anchor, rel_href) ==
    LET qs_start == unwrap_or(find(rel_href, {"?", "#"}), Len(rel_href))
        anchor_start == unwrap_or(find(rel_href, {"#"}), Len(rel_href))
        href == push_and_canonicalize(
                    IF self.is_index_html THEN Append(self.href, "/") ELSE self.href,
                    slice_to(rel_href, qs_start))
        anchor == slice_from(rel_href, anchor_start)
    IN  IF Len(anchor) > 1 THEN href \o anchor ELSE href

\* Document::join
join(self, preserve_anchor, rel_href) ==
    LET qs_start == unwrap_or(find(rel_href, {"?", "#"}), Len(rel_href))
        anchor_start == unwrap_or(find(rel_href, {"#"}), Len(rel_href))
        href == push_and_canonicalize(
                    IF self.is_index_html THEN Append(self.href, "/") ELSE self.href,
                    slice_to(rel_href, qs_start))
        anchor == slice_from(rel_href, anchor_start)
    IN  IF preserve_anchor /\ Len(anchor) > 1 THEN href \o anchor ELSE href

(***************************************************************************)
(* ParagraphWalker (crate::paragraph): the verbatim text accumulator.  The *)
(* walker is the text fed since the last finish_paragraph, and the         *)
(* fingerprint of a paragraph is that text.                                *)
(***************************************************************************)
ParagraphWalker_new == <<>>

\* a bug a walker could have: the text is put before what was fed already
ParagraphWalker_update_prepends(walker, text) == text \o walker

ParagraphWalker_update(walker, text) == walker \o text

\* finish_paragraph: the fingerprint returned and the walker left
ParagraphWalker_finish_paragraph(walker) ==
    [paragraph |-> walker, walker |-> <<>>]

(***************************************************************************)
(* Link                                                                    *)
(***************************************************************************)
Uses(href, path, paragraph) ==
    [kind |-> "Uses", href |-> href, path |-> path, paragraph |-> paragraph]

Defines(href) == [kind |-> "Defines", href |-> href]

(***************************************************************************)
(* The constant tables                                                     *)
(***************************************************************************)
BAD_SCHEMAS ==
    << <<"h", "t", "t", "p", ":", "/", "/">>,
       <<"h", "t", "t", "p", "s", ":", "/", "/">>,
       <<"i", "r", "c", ":", "/", "/">>,
       <<"f", "t", "p", ":", "/", "/">>,
       <<"m", "a", "i", "l", "t", "o", ":">>,
       <<"d", "a", "t", "a", ":">> >>

\* a bug the table could have: only 'p' bears a paragraph
PARAGRAPH_TAGS_only_p == <<"p">>

PARAGRAPH_TAGS == <<"p", "li", "dt", "dd">>

contains(list, x) == \E i \in 1..Len(list) : list[i] = x

(***************************************************************************)
(* The StartTag arm of the token sink: what one start tag pushes           *)
(***************************************************************************)
\* a bug the filter could have: a value is dropped only when it starts with
\* every excluded prefix, so that none is ever dropped
has_no_bad_schema_any(value) ==
    \E i \in 1..Len(BAD_SCHEMAS) : ~starts_with(value, BAD_SCHEMAS[i])

\* a bug the filter could have: only the first excluded prefix is looked for
has_no_bad_schema_first(value) == ~starts_with(value, BAD_SCHEMAS[1])

\* BAD_SCHEMAS.iter().all(|schema| !attr.value.starts_with(schema))
has_no_bad_schema(value) ==
    \A i \in 1..Len(BAD_SCHEMAS) : ~starts_with(value, BAD_SCHEMAS[i])

\* extract_used_link!(attr_name): the links it pushes, in order
extract_used_link(self, anchors, tag, attr_name) ==
    LET pick(attr) == attr.name = attr_name /\ has_no_bad_schema(attr.value)
        picked == SelectSeq(tag.attrs, pick)
    IN  [i \in 1..Len(picked) |->
            Uses(join(self, anchors, picked[i].value), self.path, None)]

\* a bug the macro could have: the definitions are pushed without the flag
extract_anchor_def_unguarded(self, anchors, tag, attr_name) ==
    LET pick(attr) == attr.name = attr_name
        picked == SelectSeq(tag.attrs, pick)
    IN  [i \in 1..Len(picked) |->
            Defines(join(self, anchors, <<"#">> \o picked[i].value))]

\* a bug the macro could have: the '#' is not put before the value
extract_anchor_def_no_hash(self, anchors, tag, attr_name) ==
    LET pick(attr) == attr.name = attr_name
        picked == SelectSeq(tag.attrs, pick)
    IN  IF anchors
        THEN [i \in 1..Len(picked) |-> Defines(join(self, anchors, picked[i].value))]
        ELSE <<>>

\* extract_anchor_def!(attr_name): the links it pushes, in order
extract_anchor_def(self, anchors, tag, attr_name) ==
    LET pick(attr) == attr.name = attr_name
        picked == SelectSeq(tag.attrs, pick)
    IN  IF anchors
        THEN [i \in 1..Len(picked) |->
                 Defines(join(self, anchors, <<"#">> \o picked[i].value))]
        ELSE <<>>

\* a bug the dispatch could have: the id definition is pushed before the rest
start_tag_links_id_first(self, anchors, tag) ==
    extract_anchor_def(self, anchors, tag, "id")
    \o (CASE tag.name = "a" -> extract_used_link(self, anchors, tag, "href")
                               \o extract_anchor_def(self, anchors, tag, "name")
          [] tag.name = "img" -> extract_used_link(self, anchors, tag, "src")
          [] tag.name = "link" -> extract_used_link(self, anchors, tag, "href")
          [] tag.name = "script" -> extract_used_link(self, anchors, tag, "src")
          [] tag.name = "iframe" -> extract_used_link(self, anchors, tag, "src")
          [] tag.name = "area" -> extract_used_link(self, anchors, tag, "href")
          [] tag.name = "object" -> extract_used_link(self, anchors, tag, "data")
          [] OTHER -> <<>>)

\* match &*tag.name { ... } followed by extract_anchor_def!("id")
start_tag_links(self, anchors, tag) ==
    (CASE tag.name = "a" -> extract_used_link(self, anchors, tag, "href")
                            \o extract_anchor_def(self, anchors, tag, "name")
       [] tag.name = "img" -> extract_used_link(self, anchors, tag, "src")
       [] tag.name = "link" -> extract_used_link(self, anchors, tag, "href")
       [] tag.name = "script" -> extract_used_link(self, anchors, tag, "src")
       [] tag.name = "iframe" -> extract_used_link(self, anchors, tag, "src")
       [] tag.name = "area" -> extract_used_link(self, anchors, tag, "href")
       [] tag.name = "object" -> extract_used_link(self, anchors, tag, "data")
       [] OTHER -> <<>>)
    \o extract_anchor_def(self, anchors, tag, "id")

\* history: the attribute each link start_tag_links pushes came from
start_tag_origins(anchors, tag) ==
    LET from(attr_name, filtered) ==
            LET pick(attr) == /\ attr.name = attr_name
                              /\ filtered => has_no_bad_schema(attr.value)
            IN  SelectSeq(tag.attrs, pick)
        used(attr_name) == from(attr_name, TRUE)
        defs(attr_name) == IF anchors THEN from(attr_name, FALSE) ELSE <<>>
    IN  (CASE tag.name = "a" -> used("href") \o defs("name")
           [] tag.name \in {"img", "script", "iframe"} -> used("src")
           [] tag.name \in {"link", "area"} -> used("href")
           [] tag.name = "object" -> used("data")
           [] OTHER -> <<>>)
        \o defs("id")

\* a bug the back-fill could have: the first link of the paragraph is skipped
back_fill_skips_first(links, from, paragraph) ==
    [i \in 1..Len(links) |->
        IF i > from + 1 /\ links[i].kind = "Uses"
        THEN [links[i] EXCEPT !.paragraph = Some(paragraph)]
        ELSE links[i]]

\* the back-fill loop of the EndTag arm over sink[last_paragraph_i..]
back_fill(links, from, paragraph) ==
    [i \in 1..Len(links) |->
        IF i > from /\ links[i].kind = "Uses"
        THEN [links[i] EXCEPT !.paragraph = Some(paragraph)]
        ELSE links[i]]

(***************************************************************************)
(* The strings of the tests of src/html.rs                                 *)
(***************************************************************************)
str_2019_slash == <<"2", "0", "1", "9", "/">>
str_dotdot_feed_xml ==
    <<".", ".", "/", "f", "e", "e", "d", ".", "x", "m", "l">>
str_feed_xml == <<"f", "e", "e", "d", ".", "x", "m", "l">>
str_contact_html ==
    <<"c", "o", "n", "t", "a", "c", "t", ".", "h", "t", "m", "l">>
str_dot_2014_article_html ==
    <<".", "/", "2", "0", "1", "4", "/", "a", "r", "t", "i", "c", "l", "e",
      ".", "h", "t", "m", "l">>
str_2014_article_html ==
    <<"2", "0", "1", "4", "/", "a", "r", "t", "i", "c", "l", "e", ".", "h",
      "t", "m", "l">>
str_dot_foo_install_html ==
    <<".", "/", "f", "o", "o", "/", "i", "n", "s", "t", "a", "l", "l", ".",
      "h", "t", "m", "l">>
str_dot_foo_slash == <<".", "/", "f", "o", "o", "/">>
str_dot_foo == <<".", "/", "f", "o", "o">>
str_four_dotdot == <<".", ".", "/", ".", ".", "/", ".", ".", "/", ".", ".">>
str_public_slash == <<"p", "u", "b", "l", "i", "c", "/">>
str_public_index_path ==
    <<"p", "u", "b", "l", "i", "c", "/", "p", "l", "a", "t", "f", "o", "r",
      "m", "s", "/", "p", "y", "t", "h", "o", "n", "/", "t", "r", "o", "u",
      "b", "l", "e", "s", "h", "o", "o", "t", "i", "n", "g", "/", "i", "n",
      "d", "e", "x", ".", "h", "t", "m", "l">>
str_public_bare_path ==
    <<"p", "u", "b", "l", "i", "c", "/", "p", "l", "a", "t", "f", "o", "r",
      "m", "s", "/", "p", "y", "t", "h", "o", "n", "/", "t", "r", "o", "u",
      "b", "l", "e", "s", "h", "o", "o", "t", "i", "n", "g", ".", "h", "t",
      "m", "l">>
str_troubleshooting ==
    <<"p", "l", "a", "t", "f", "o", "r", "m", "s", "/", "p", "y", "t", "h",
      "o", "n", "/", "t", "r", "o", "u", "b", "l", "e", "s", "h", "o", "o",
      "t", "i", "n", "g">>
str_troubleshooting_html ==
    <<"p", "l", "a", "t", "f", "o", "r", "m", "s", "/", "p", "y", "t", "h",
      "o", "n", "/", "t", "r", "o", "u", "b", "l", "e", "s", "h", "o", "o",
      "t", "i", "n", "g", ".", "h", "t", "m", "l">>
str_up2_ruby_foo ==
    <<".", ".", "/", ".", ".", "/", "r", "u", "b", "y", "#", "f", "o", "o">>
str_up2_ruby_bar_foo ==
    <<".", ".", "/", ".", ".", "/", "r", "u", "b", "y", "?", "b", "a", "r",
      "=", "1", "#", "f", "o", "o">>
str_up1_ruby_foo == <<".", ".", "/", "r", "u", "b", "y", "#", "f", "o", "o">>
str_up1_ruby_bar_foo ==
    <<".", ".", "/", "r", "u", "b", "y", "?", "b", "a", "r", "=", "1", "#",
      "f", "o", "o">>
str_abs_platforms_ruby ==
    <<"/", "p", "l", "a", "t", "f", "o", "r", "m", "s", "/", "r", "u", "b",
      "y">>
str_abs_platforms_ruby_bar_foo ==
    <<"/", "p", "l", "a", "t", "f", "o", "r", "m", "s", "/", "r", "u", "b",
      "y", "?", "b", "a", "r", "=", "1", "#", "f", "o", "o">>
str_platforms_ruby ==
    <<"p", "l", "a", "t", "f", "o", "r", "m", "s", "/", "r", "u", "b", "y">>
str_platforms_ruby_foo ==
    <<"p", "l", "a", "t", "f", "o", "r", "m", "s", "/", "r", "u", "b", "y",
      "#", "f", "o", "o">>

(***************************************************************************)
(* Bounds, and the inputs drawn within them                                *)
(***************************************************************************)
\* the longest base and relative path push_and_canonicalize is given
MaxLen == 4
\* the longest reference join is given
MaxRefLen == 4
\* the most pieces a file path given to Document::new is made of
MaxPieces == 4

\* every string of at most n characters of chars
Strings(chars, n) == UNION {[1..k -> chars] : k \in 0..n}

PathChars == {"/", ".", "a"}
RefChars == {"/", ".", "a", "?", "#"}

CanonBases ==
    Strings(PathChars, MaxLen)
    \cup {str_2019_slash, str_contact_html, str_dot_foo_install_html,
          str_dot_foo_slash}

CanonPaths ==
    Strings(PathChars, MaxLen)
    \cup {str_dotdot_feed_xml, str_contact_html, str_dot_2014_article_html,
          str_four_dotdot}

\* every concatenation of at most n of the pieces
RECURSIVE Concats(_, _)
Concats(pieces, n) ==
    IF n = 0
    THEN {<<>>}
    ELSE LET shorter == Concats(pieces, n - 1)
         IN  shorter \cup {s \o piece : s \in shorter, piece \in pieces}

PathPieces ==
    {<<"p", "u", "b">>, <<"/">>, <<".">>, <<"a">>, <<"x", ".", "h", "t", "m", "l">>,
     index_html, index_htm}

SiteRoots == {<<"p", "u", "b">>, <<"p", "u", "b", "/">>, str_public_slash}

FilePaths ==
    Concats(PathPieces, MaxPieces)
    \cup {str_public_index_path, str_public_bare_path}

\* the documents join is checked on: the two of the tests, an index document
\* and a plain document in a sub-directory, and the two at the site root
JoinDocuments ==
    {Document_new(str_public_slash, path) :
        path \in {str_public_index_path, str_public_bare_path,
                  <<"p", "u", "b", "l", "i", "c", "/">> \o index_html,
                  <<"p", "u", "b", "l", "i", "c", "/", "a">>,
                  <<"p", "u", "b", "l", "i", "c", "/", "a", "/">> \o index_htm,
                  <<"p", "u", "b", "l", "i", "c", "/", "a", "/", "a">>}}

JoinRefs ==
    Strings(RefChars, MaxRefLen)
    \cup {str_up2_ruby_foo, str_up2_ruby_bar_foo, str_up1_ruby_foo,
          str_up1_ruby_bar_foo, str_abs_platforms_ruby,
          str_abs_platforms_ruby_bar_foo}

(***************************************************************************)
(* The specifications of the pure functions: Init draws the arguments, the *)
(* one action makes the call.                                              *)
(***************************************************************************)
NoDocument == [path |-> <<>>, href |-> <<>>, is_index_html |-> FALSE]

\* history: the value of opened while no paragraph-bearing tag is open
NotOpened == [name |-> "", at |-> 0, text |-> <<>>]

\* the scanner's variables while no scan runs
NoScan ==
    /\ doc = NoDocument
    /\ check_anchors = FALSE
    /\ get_paragraphs = FALSE
    /\ sink = <<>>
    /\ last_paragraph_i = 0
    /\ in_paragraph = FALSE
    /\ paragraph_walker = <<>>
    /\ pc = "idle"
    /\ initial_length = 0
    /\ emitted = <<>>
    /\ last = [kind |-> "", name |-> ""]
    /\ opened = NotOpened

scan_vars == <<doc, check_anchors, get_paragraphs, sink, last_paragraph_i,
               in_paragraph, paragraph_walker, pc, initial_length, emitted, last,
               opened>>

InitCanon ==
    /\ args \in [op : {"push_and_canonicalize"}, base : CanonBases, path : CanonPaths]
    /\ ret = None
    /\ NoScan

Call_push_and_canonicalize ==
    /\ args.op = "push_and_canonicalize"
    /\ ret = None
    /\ ret' = Some(push_and_canonicalize(args.base, args.path))
    /\ UNCHANGED <<args, scan_vars>>

SpecCanon == InitCanon /\ [][Call_push_and_canonicalize]_vars

InitNew ==
    /\ args \in [op : {"new"}, base_path : SiteRoots, path : FilePaths]
    /\ ret = None
    /\ NoScan

Call_Document_new ==
    /\ args.op = "new"
    /\ ret = None
    /\ ret' = Some(Document_new(args.base_path, args.path))
    /\ UNCHANGED <<args, scan_vars>>

SpecNew == InitNew /\ [][Call_Document_new]_vars

InitJoin ==
    /\ args \in [op : {"join"}, self : JoinDocuments, preserve_anchor : BOOLEAN,
                 rel_href : JoinRefs]
    /\ ret = None
    /\ NoScan

Call_join ==
    /\ args.op = "join"
    /\ ret = None
    /\ ret' = Some(join(args.self, args.preserve_anchor, args.rel_href))
    /\ UNCHANGED <<args, scan_vars>>

SpecJoin == InitJoin /\ [][Call_join]_vars

(***************************************************************************)
(* Document::links_from_read: the scan of one document.  The tokens are    *)
(* the tokenizer's: tag names and attribute names are lower-cased strings, *)
(* a tag has no two attributes of one name, attribute values and text are  *)
(* character sequences.                                                    *)
(***************************************************************************)
\* the most links the sink holds
MaxSink == 2
\* the most characters of text a paragraph accumulates
MaxText == 1

ScanDocuments ==
    {Document_new(<<"p", "u", "b">>, <<"p", "u", "b", "/", "a", "/">> \o index_htm)}

\* what the caller's sink holds when the scan is called: nothing, or a use of
\* another document whose paragraph is absent
InitialSinks == {<<>>, <<Uses(<<"o">>, <<"p", "u", "b", "/", "o">>, None)>>}

ScanTagNames == {"p", "li", "a", "div"}

ScanLinkValues == {<<"b", "?", "q", "#", "f">>}

ScanAttributes ==
    [name : {"href"}, value : ScanLinkValues]
    \cup [name : {"name", "id"}, value : {<<"x">>}]

ScanAttributeLists ==
    {<<>>}
    \cup {<<x>> : x \in ScanAttributes}
    \cup {pair \in ScanAttributes \X ScanAttributes : pair[1].name # pair[2].name}
    \cup {<<[name |-> "id", value |-> <<"x">>], [name |-> "name", value |-> <<"x">>],
            [name |-> "href", value |-> <<"b", "?", "q", "#", "f">>]>>}

ScanStartTags == [name : ScanTagNames, attrs : ScanAttributeLists]

ScanTexts == {<<"s">>}

\* history: whether the scan pushed the use inside a paragraph, and the name
\* of the attribute the link came from ("" for the caller's own links)
Origin(in_par, attr) ==
    [in_paragraph |-> in_par /\ attr.name \notin {"name", "id"}, attr |-> attr.name]

CallerOrigin == [in_paragraph |-> FALSE, attr |-> ""]

\* history: the names of the paragraph-bearing tags
ParagraphBearing == {"p", "li", "dt", "dd"}

\* the sink has room for the links of the tag
HasRoom(tag, max) ==
    Len(sink) + Len(start_tag_links(doc, check_anchors, tag)) <= max

\* the text of the paragraph has room for the string
HasTextRoom(string, max) ==
    /\ Len(paragraph_walker) + Len(string) <= max
    /\ Len(opened.text) + Len(string) <= max

\* history: the value of last when the last token is no end tag
NotEndTag == [kind |-> "", name |-> ""]

Init ==
    /\ args = [op |-> "links_from_read"]
    /\ ret = None
    /\ doc \in ScanDocuments
    /\ check_anchors \in BOOLEAN
    /\ get_paragraphs \in BOOLEAN
    /\ sink \in InitialSinks
    /\ last_paragraph_i = 0
    /\ in_paragraph = FALSE
    /\ paragraph_walker = <<>>
    /\ pc = "read"
    /\ initial_length = Len(sink)
    /\ emitted = [i \in 1..Len(sink) |-> CallerOrigin]
    /\ last = [kind |-> "", name |-> ""]
    /\ opened = NotOpened

\* a bug the scan could have: a failed read leaves the caller's sink cleared
Read_clears_sink(outcome) ==
    /\ pc = "read"
    /\ IF outcome = "ok"
       THEN /\ pc' = "tokens"
            /\ paragraph_walker' = ParagraphWalker_new
            /\ last_paragraph_i' = Len(sink)
            /\ in_paragraph' = FALSE
            /\ ret' = ret
            /\ sink' = sink
       ELSE /\ pc' = "returned"
            /\ ret' = Some([Err |-> outcome])
            /\ sink' = <<>>
            /\ UNCHANGED <<paragraph_walker, last_paragraph_i, in_paragraph>>
    /\ UNCHANGED <<args, doc, check_anchors, get_paragraphs, initial_length,
                   emitted, last, opened>>

\* read.read_to_tendril(&mut bytes)? and bytes.try_reinterpret()?, then the
\* locals of the scan; the bytes are the environment's
Read(outcome) ==
    /\ pc = "read"
    /\ IF outcome = "ok"
       THEN /\ pc' = "tokens"
            /\ paragraph_walker' = ParagraphWalker_new
            /\ last_paragraph_i' = Len(sink)
            /\ in_paragraph' = FALSE
            /\ ret' = ret
       ELSE /\ pc' = "returned"
            /\ ret' = Some([Err |-> outcome])
            /\ UNCHANGED <<paragraph_walker, last_paragraph_i, in_paragraph>>
    /\ UNCHANGED <<args, doc, check_anchors, get_paragraphs, sink, initial_length,
                   emitted, last, opened>>

\* a bug the bookkeeping could have: the start of the paragraph is not recorded
start_tag_last_paragraph_i_stale(tag, old, len) == old

\* a bug the bookkeeping could have: a paragraph starts one link too early
start_tag_last_paragraph_i_early(tag, old, len) ==
    IF contains(PARAGRAPH_TAGS, tag.name)
    THEN (IF len > 0 THEN len - 1 ELSE 0)
    ELSE old

\* a bug the bookkeeping could have: a paragraph starts at the front of the sink
start_tag_last_paragraph_i_front(tag, old, len) ==
    IF contains(PARAGRAPH_TAGS, tag.name) THEN 0 ELSE old

\* last_paragraph_i after the paragraph bookkeeping of a start tag
start_tag_last_paragraph_i(tag, old, len) ==
    IF contains(PARAGRAPH_TAGS, tag.name) THEN len ELSE old

\* Token::TagToken(tag), tag.kind = StartTag
StartTag(tag) ==
    LET opens == contains(PARAGRAPH_TAGS, tag.name)
        pushed == start_tag_links(doc, check_anchors, tag)
        origins == start_tag_origins(check_anchors, tag)
    IN  /\ pc = "tokens"
        /\ in_paragraph' = (opens \/ in_paragraph)
        /\ last_paragraph_i' = start_tag_last_paragraph_i(tag, last_paragraph_i, Len(sink))
        /\ paragraph_walker' =
               IF opens
               THEN ParagraphWalker_finish_paragraph(paragraph_walker).walker
               ELSE paragraph_walker
        /\ sink' = sink \o pushed
        /\ emitted' = emitted \o [i \in 1..Len(origins) |->
                                     Origin(in_paragraph', origins[i])]
        /\ last' = NotEndTag
        /\ opened' = IF tag.name \in ParagraphBearing
                     THEN [name |-> tag.name,
                           at |-> IF opened.name = "" THEN Len(sink) ELSE opened.at,
                           text |-> <<>>]
                     ELSE opened
        /\ UNCHANGED <<args, ret, doc, check_anchors, get_paragraphs, pc, initial_length>>

\* Token::TagToken(tag), tag.kind = EndTag
EndTag(name) ==
    LET closes == get_paragraphs /\ contains(PARAGRAPH_TAGS, name)
        finished == ParagraphWalker_finish_paragraph(paragraph_walker)
    IN  /\ pc = "tokens"
        /\ IF closes
           THEN /\ paragraph_walker' = finished.walker
                /\ sink' = IF in_paragraph
                           THEN back_fill(sink, last_paragraph_i, finished.paragraph)
                           ELSE sink
                /\ in_paragraph' = FALSE
                /\ last_paragraph_i' = Len(sink)
           ELSE UNCHANGED <<paragraph_walker, sink, in_paragraph, last_paragraph_i>>
        /\ last' = [kind |-> "EndTag", name |-> name]
        /\ opened' = IF name \in ParagraphBearing THEN NotOpened ELSE opened
        /\ UNCHANGED <<args, ret, doc, check_anchors, get_paragraphs, pc,
                       initial_length, emitted>>

\* Token::CharacterTokens(string)
CharacterTokens(string) ==
    /\ pc = "tokens"
    /\ paragraph_walker' = IF get_paragraphs /\ in_paragraph
                           THEN ParagraphWalker_update(paragraph_walker, string)
                           ELSE paragraph_walker
    /\ last' = NotEndTag
    /\ opened' = IF opened.name # ""
                 THEN [opened EXCEPT !.text = opened.text \o string]
                 ELSE opened
    /\ UNCHANGED <<args, ret, doc, check_anchors, get_paragraphs, sink,
                   last_paragraph_i, in_paragraph, pc, initial_length, emitted>>

\* any other token: a comment, a doctype, a parse error, a NUL character
OtherToken ==
    /\ pc = "tokens"
    /\ last' = NotEndTag
    /\ UNCHANGED <<args, ret, doc, check_anchors, get_paragraphs, sink,
                   last_paragraph_i, in_paragraph, paragraph_walker, pc,
                   initial_length, emitted, opened>>

\* a bug the scan could have: a paragraph left open at the end is an error
Done_rejects_open_paragraph ==
    /\ pc = "tokens"
    /\ pc' = "returned"
    /\ ret' = IF in_paragraph
              THEN Some([Err |-> "unclosed paragraph"])
              ELSE Some([Ok |-> <<>>])
    /\ UNCHANGED <<args, doc, check_anchors, get_paragraphs, sink, last_paragraph_i,
                   in_paragraph, paragraph_walker, initial_length, emitted, last,
                   opened>>

\* tokenizer.feed returns Done: Ok(())
Done ==
    /\ pc = "tokens"
    /\ pc' = "returned"
    /\ ret' = Some([Ok |-> <<>>])
    /\ UNCHANGED <<args, doc, check_anchors, get_paragraphs, sink, last_paragraph_i,
                   in_paragraph, paragraph_walker, initial_length, emitted, last,
                   opened>>

Next ==
    \/ \E outcome \in {"ok", "io error", "file contained invalid utf8"} : Read(outcome)
    \/ \E tag \in ScanStartTags : HasRoom(tag, MaxSink) /\ StartTag(tag)
    \/ \E name \in ScanTagNames : EndTag(name)
    \/ \E string \in ScanTexts : HasTextRoom(string, MaxText) /\ CharacterTokens(string)
    \/ OtherToken
    \/ Done

Spec == Init /\ [][Next]_vars

(***************************************************************************)
(* The scan of a document of paragraphs: few tags, one link value and no   *)
(* anchors, and texts of two kinds, so that a paragraph's text has several *)
(* fragments whose order shows.                                            *)
(***************************************************************************)
\* the most links the sink holds in the scan of paragraphs
MaxParSink == 2
\* the most characters of text between two paragraph tags
MaxParText == 2

ParTagNames == {"p", "li", "a"}

ParStartTags ==
    [name : {"p", "li"}, attrs : {<<>>}]
    \cup [name : {"a"}, attrs : {<<[name |-> "href", value |-> <<"b">>]>>}]

ParTexts == {<<"s">>, <<"t">>}

InitPar ==
    /\ args = [op |-> "links_from_read"]
    /\ ret = None
    /\ doc \in ScanDocuments
    /\ check_anchors = FALSE
    /\ get_paragraphs \in BOOLEAN
    /\ sink \in InitialSinks
    /\ last_paragraph_i = 0
    /\ in_paragraph = FALSE
    /\ paragraph_walker = <<>>
    /\ pc = "read"
    /\ initial_length = Len(sink)
    /\ emitted = [i \in 1..Len(sink) |-> CallerOrigin]
    /\ last = [kind |-> "", name |-> ""]
    /\ opened = NotOpened

NextPar ==
    \/ \E outcome \in {"ok", "io error", "file contained invalid utf8"} : Read(outcome)
    \/ \E tag \in ParStartTags : HasRoom(tag, MaxParSink) /\ StartTag(tag)
    \/ \E name \in ParTagNames : EndTag(name)
    \/ \E string \in ParTexts : HasTextRoom(string, MaxParText) /\ CharacterTokens(string)
    \/ OtherToken
    \/ Done

SpecPar == InitPar /\ [][NextPar]_vars


(***************************************************************************)
(* The specification of one start tag: Init draws the document, the flag   *)
(* and the tag, the one action pushes the tag's links.                     *)
(***************************************************************************)
TagDocuments ==
    {Document_new(<<"p", "u", "b">>, path) :
        path \in {<<"p", "u", "b", "/", "a", "/">> \o index_htm,
                  <<"p", "u", "b", "/">> \o index_html,
                  <<"p", "u", "b", "/", "a", "/", "c">>}}

TagNames == {"a", "img", "link", "script", "iframe", "area", "object", "p", "li", "div"}

TagLinkValues ==
    {<<"b">>, <<".", ".", "/", "b", "#", "f">>, <<"/", "b", "?", "q", "#", "f">>,
     <<"#", "x">>, <<"#">>, <<>>,
     <<"h", "t", "t", "p", ":", "/", "/", "e">>,
     <<"h", "t", "t", "p", "s", ":", "/", "/", "e">>,
     <<"i", "r", "c", ":", "/", "/", "e">>,
     <<"f", "t", "p", ":", "/", "/", "e">>,
     <<"m", "a", "i", "l", "t", "o", ":", "x", "@", "e">>,
     <<"d", "a", "t", "a", ":", "x">>,
     <<"m", "a", "i", "l", "t", "o">>,
     <<"b", "#", "h", "t", "t", "p", ":", "/", "/", "e">>,
     <<".", "/", "d", "a", "t", "a", ":", "x">>,
     <<" ", "b">>, <<"b", " ">>}

TagAnchorValues == {<<"x">>, <<>>, <<"x", "?", "y">>, <<"d", "a", "t", "a", ":", "x">>}

TagAttributes ==
    [name : {"href", "src", "data"}, value : TagLinkValues]
    \cup [name : {"name", "id"}, value : TagAnchorValues]

TagAttributeLists ==
    {<<>>}
    \cup {<<x>> : x \in TagAttributes}
    \cup {pair \in TagAttributes \X TagAttributes : pair[1].name # pair[2].name}
    \cup {<<[name |-> "id", value |-> <<"x">>], [name |-> "name", value |-> <<"x">>],
            [name |-> "href", value |-> <<"#", "x">>]>>}

InitTag ==
    /\ args \in [op : {"start_tag"}, self : TagDocuments, check_anchors : BOOLEAN,
                 tag : [name : TagNames, attrs : TagAttributeLists]]
    /\ ret = None
    /\ NoScan

Call_start_tag_links ==
    /\ args.op = "start_tag"
    /\ ret = None
    /\ ret' = Some(start_tag_links(args.self, args.check_anchors, args.tag))
    /\ UNCHANGED <<args, scan_vars>>

SpecTag == InitTag /\ [][Call_start_tag_links]_vars


(***************************************************************************)
(* Claims about push_and_canonicalize (under SpecCanon)                    *)
(***************************************************************************)
\* the rules of the canonicalizer, stated from positions instead of by search
SlashPositions(s) == {i \in 1..Len(s) : s[i] = "/"}

Max(S) == CHOOSE x \in S : \A y \in S : y <= x

\* the part of s before its last '/', empty when it has none
BeforeLastSlash(s) ==
    IF SlashPositions(s) = {} THEN <<>> ELSE SubSeq(s, 1, Max(SlashPositions(s)) - 1)

\* the k-th '/'-separated segment of s, k in 1..Cardinality(SlashPositions(s))+1
Segment(s, k) ==
    LET bounds == SlashPositions(s) \cup {0, Len(s) + 1}
        lo == CHOOSE b \in bounds : Cardinality({c \in bounds : c < b}) = k - 1
        hi == CHOOSE b \in bounds : Cardinality({c \in bounds : c < b}) = k
    IN  SubSeq(s, lo + 1, hi - 1)

Segments(s) == [k \in 1..(Cardinality(SlashPositions(s)) + 1) |-> Segment(s, k)]

\* rule 4 for the segments k..n of segs
RECURSIVE ApplySegments(_, _, _)
ApplySegments(base, segs, k) ==
    IF k > Len(segs) THEN base
    ELSE LET seg == segs[k]
             next == CASE seg \in {<<>>, <<".">>} -> base
                       [] seg = <<".", ".">> -> BeforeLastSlash(base)
                       [] OTHER -> IF base = <<>> THEN seg ELSE base \o <<"/">> \o seg
         IN  ApplySegments(next, segs, k + 1)

\* the four rules, in order
CanonicalizeRules(B, R) ==
    IF R # <<>> /\ R[1] = "/" THEN ApplySegments(<<>>, Segments(R), 1)
    ELSE IF R = <<>> THEN (IF B # <<>> /\ B[Len(B)] = "/" THEN SubSeq(B, 1, Len(B) - 1) ELSE B)
    ELSE ApplySegments(BeforeLastSlash(B), Segments(R), 1)

CanonCalled == args.op = "push_and_canonicalize" /\ ret # None

CanonCase(B, R) == CanonCalled /\ args.base = B /\ args.path = R

\* R is made of ".." segments only, more of them than B has levels
OnlyDotDotPastRoot(B, R) ==
    /\ \A k \in 1..Len(Segments(R)) : Segments(R)[k] = <<".", ".">>
    /\ Len(Segments(R)) > Cardinality(SlashPositions(B))

\* C1: push_and_canonicalize(B, R) leaves base equal to the result of the four
\* rules applied in order (absolute R discards B; empty R only drops one
\* trailing '/'; otherwise B is cut before its last '/'; then the segments of
\* R are applied), with the results of the five tests, and any number of ".."
\* segments past the root leaves base empty.
C1_CanonicalizeFollowsRules ==
    CanonCalled =>
        /\ ret[1] = CanonicalizeRules(args.base, args.path)
        /\ CanonCase(str_2019_slash, str_dotdot_feed_xml) => ret[1] = str_feed_xml
        /\ CanonCase(str_contact_html, str_contact_html) => ret[1] = str_contact_html
        /\ CanonCase(<<>>, str_dot_2014_article_html) => ret[1] = str_2014_article_html
        /\ CanonCase(str_dot_foo_install_html, <<>>) => ret[1] = str_dot_foo_install_html
        /\ CanonCase(str_dot_foo_slash, <<>>) => ret[1] = str_dot_foo
        /\ OnlyDotDotPastRoot(args.base, args.path) => ret[1] = <<>>

\* C1 witness: '2019/' resolved against '../feed.xml' has left 'feed.xml'
C1_Witness ==
    CanonCase(str_2019_slash, str_dotdot_feed_xml) /\ ret = Some(str_feed_xml)

AlnumChars ==
    {"a", "b", "c", "d", "e", "f", "g", "h", "i", "j", "k", "l", "m", "n", "o",
     "p", "q", "r", "s", "t", "u", "v", "w", "x", "y", "z",
     "0", "1", "2", "3", "4", "5", "6", "7", "8", "9"}

\* every segment of R is "", ".", ".." or an alphanumeric word
OnlyPlainSegments(R) ==
    \A k \in 1..Len(Segments(R)) :
        LET seg == Segments(R)[k]
        IN  \/ seg \in {<<>>, <<".">>, <<".", ".">>}
            \/ \A i \in 1..Len(seg) : seg[i] \in AlnumChars

HasDoubleSlash(s) == \E i \in 1..(Len(s) - 1) : s[i] = "/" /\ s[i + 1] = "/"

BeginsWithDotDotSlash(s) == Len(s) >= 3 /\ SubSeq(s, 1, 3) = <<".", ".", "/">>

\* C2 as stated: for every base B and every R of plain segments, the base left
\* never contains '//' and never begins with '../'.
C2_Original_AnyBase ==
    (CanonCalled /\ OnlyPlainSegments(args.path)) =>
        ~HasDoubleSlash(ret[1]) /\ ~BeginsWithDotDotSlash(ret[1])

\* C2 amended: for every base B that itself neither contains '//' nor begins
\* with '../', and every R of plain segments, the base left never contains
\* '//' and never begins with '../'.
C2_CleanBaseStaysClean ==
    (/\ CanonCalled
     /\ OnlyPlainSegments(args.path)
     /\ ~HasDoubleSlash(args.base)
     /\ ~BeginsWithDotDotSlash(args.base)) =>
        ~HasDoubleSlash(ret[1]) /\ ~BeginsWithDotDotSlash(ret[1])

\* C2 witness: the clean base 'a/a' resolved against '../a' has left 'a'
C2_Witness ==
    /\ CanonCase(<<"a", "/", "a">>, <<".", ".", "/", "a">>)
    /\ ret = Some(<<"a">>)

(***************************************************************************)
(* Claims about Document::join (under SpecJoin)                            *)
(***************************************************************************)
\* the position (from 1) of the first character of s in cs, Len(s) + 1 if none
FirstOf(s, cs) ==
    LET at == {i \in 1..Len(s) : s[i] \in cs}
    IN  IF at = {} THEN Len(s) + 1 ELSE CHOOSE i \in at : \A j \in at : i <= j

\* the part of a reference before its first '?' or '#'
PathPart(r) == SubSeq(r, 1, FirstOf(r, {"?", "#"}) - 1)

\* the fragment of a reference: from its first '#' to its end
Fragment(r) == SubSeq(r, FirstOf(r, {"#"}), Len(r))

\* what join keeps of the fragment
KeptFragment(preserve_anchor, r) ==
    IF preserve_anchor /\ Len(Fragment(r)) > 1 THEN Fragment(r) ELSE <<>>

\* the base a document resolves references against
JoinBase(d) == IF d.is_index_html THEN d.href \o <<"/">> ELSE d.href

JoinCalled == args.op = "join" /\ ret # None

JoinCase(href, is_index, preserve_anchor, r) ==
    /\ JoinCalled
    /\ args.self.href = href
    /\ args.self.is_index_html = is_index
    /\ args.preserve_anchor = preserve_anchor
    /\ args.rel_href = r

\* C3: join(preserve_anchor, r) is the canonicalization of the part of r before
\* its first '?' or '#' against the document's href (with '/' appended for an
\* index document), followed by the fragment of r exactly when preserve_anchor
\* holds and the fragment is longer than '#'; nothing of a query string is in
\* the part of the result before the fragment; with the results of the tests
\* for the index and the plain document.
C3_JoinIsCanonicalPathPlusFragment ==
    JoinCalled =>
        /\ ret[1] = CanonicalizeRules(JoinBase(args.self), PathPart(args.rel_href))
                    \o KeptFragment(args.preserve_anchor, args.rel_href)
        /\ \A i \in 1..(Len(ret[1]) - Len(KeptFragment(args.preserve_anchor, args.rel_href))) :
               ret[1][i] \notin {"?", "#"}
        /\ JoinCase(str_troubleshooting, TRUE, FALSE, str_up2_ruby_foo)
               => ret[1] = str_platforms_ruby
        /\ JoinCase(str_troubleshooting, TRUE, TRUE, str_up2_ruby_foo)
               => ret[1] = str_platforms_ruby_foo
        /\ JoinCase(str_troubleshooting, TRUE, TRUE, str_up2_ruby_bar_foo)
               => ret[1] = str_platforms_ruby_foo
        /\ JoinCase(str_troubleshooting, TRUE, FALSE, str_abs_platforms_ruby)
               => ret[1] = str_platforms_ruby
        /\ JoinCase(str_troubleshooting, TRUE, TRUE, str_abs_platforms_ruby_bar_foo)
               => ret[1] = str_platforms_ruby_foo
        /\ JoinCase(str_troubleshooting_html, FALSE, FALSE, str_up1_ruby_foo)
               => ret[1] = str_platforms_ruby
        /\ JoinCase(str_troubleshooting_html, FALSE, TRUE, str_up1_ruby_foo)
               => ret[1] = str_platforms_ruby_foo
        /\ JoinCase(str_troubleshooting_html, FALSE, TRUE, str_up1_ruby_bar_foo)
               => ret[1] = str_platforms_ruby_foo
        /\ JoinCase(str_troubleshooting_html, FALSE, FALSE, str_abs_platforms_ruby)
               => ret[1] = str_platforms_ruby
        /\ JoinCase(str_troubleshooting_html, FALSE, TRUE, str_abs_platforms_ruby_bar_foo)
               => ret[1] = str_platforms_ruby_foo

\* C3 witness: the index document has joined '../../ruby?bar=1#foo', keeping
\* the anchor, to 'platforms/ruby#foo'
C3_Witness ==
    /\ JoinCase(str_troubleshooting, TRUE, TRUE, str_up2_ruby_bar_foo)
    /\ ret = Some(str_platforms_ruby_foo)

(***************************************************************************)
(* Claims about Document::new (under SpecNew)                              *)
(***************************************************************************)
NewCalled == args.op = "new" /\ ret # None

\* Document::new has returned a Document: the path is under the root
NewReturned == NewCalled /\ "href" \in DOMAIN ret[1]

\* the path relative to the root
RelativePath == strip_prefix(args.path, args.base_path)[1]

FinalComponentIsIndex(p) ==
    /\ components(p) # <<>>
    /\ components(p)[Len(components(p))] \in {index_html, index_htm}

\* C4: for a file path under the root, when the final component of the relative
\* path is 'index.html' or 'index.htm' the href is the relative path of the
\* parent directory and is_index_html is true; otherwise the href is the full
\* relative path and is_index_html is false; with the two hrefs of the test.
C4_HrefFoldsIndex ==
    NewReturned =>
        /\ ret[1].path = args.path
        /\ IF FinalComponentIsIndex(RelativePath)
           THEN /\ ret[1].is_index_html
                /\ is_prefix(ret[1].href, RelativePath)
                /\ components(ret[1].href)
                       = SubSeq(components(RelativePath), 1,
                                Len(components(RelativePath)) - 1)
           ELSE /\ ~ret[1].is_index_html
                /\ ret[1].href = RelativePath
        /\ (args.base_path = str_public_slash /\ args.path = str_public_index_path)
               => ret[1].href = str_troubleshooting /\ ret[1].is_index_html
        /\ (args.base_path = str_public_slash /\ args.path = str_public_bare_path)
               => ret[1].href = str_troubleshooting_html /\ ~ret[1].is_index_html

\* C4 witness: the index file of the test has the href of its directory
C4_Witness ==
    /\ NewReturned
    /\ args.base_path = str_public_slash
    /\ args.path = str_public_index_path
    /\ ret[1].href = str_troubleshooting
    /\ ret[1].is_index_html

(***************************************************************************)
(* Claims about one start tag (under SpecTag)                              *)
(***************************************************************************)
TagCalled == args.op = "start_tag" /\ ret # None

\* the link attribute of a tag name in the table, "" for a tag not in it
LinkAttribute(tag_name) ==
    CASE tag_name \in {"a", "link", "area"} -> "href"
      [] tag_name \in {"img", "script", "iframe"} -> "src"
      [] tag_name = "object" -> "data"
      [] OTHER -> ""

ExcludedPrefixes ==
    {<<"h", "t", "t", "p", ":", "/", "/">>, <<"h", "t", "t", "p", "s", ":", "/", "/">>,
     <<"i", "r", "c", ":", "/", "/">>, <<"f", "t", "p", ":", "/", "/">>,
     <<"m", "a", "i", "l", "t", "o", ":">>, <<"d", "a", "t", "a", ":">>}

HasExcludedPrefix(value) ==
    \E prefix \in ExcludedPrefixes :
        Len(value) >= Len(prefix) /\ SubSeq(value, 1, Len(prefix)) = prefix

\* the links of one kind among links, in their order
OfKind(links, kind) ==
    LET is_kind(link) == link.kind = kind
    IN  SelectSeq(links, is_kind)

\* the attributes of the tag that are uses of a link
UseAttributes(tag) ==
    LET is_use(attr) == /\ attr.name = LinkAttribute(tag.name)
                        /\ ~HasExcludedPrefix(attr.value)
    IN  SelectSeq(tag.attrs, is_use)

\* C5: the UsedLinks pushed for a start tag are exactly one per attribute whose
\* name is the tag's link attribute in the table and whose value starts with
\* none of the excluded prefixes, each with href = join(check_anchors, value),
\* the document's path and an absent paragraph; a value with an excluded
\* prefix and a tag not in the table give no UsedLink.
C5_UsesAreTheLinkAttributes ==
    TagCalled =>
        LET uses == OfKind(ret[1], "Uses")
            wanted == UseAttributes(args.tag)
        IN  /\ Len(uses) = Len(wanted)
            /\ \A k \in 1..Len(uses) :
                   uses[k] = [kind |-> "Uses",
                              href |-> join(args.self, args.check_anchors, wanted[k].value),
                              path |-> args.self.path,
                              paragraph |-> None]
            /\ LinkAttribute(args.tag.name) = "" => uses = <<>>
            /\ (\A i \in 1..Len(args.tag.attrs) :
                   HasExcludedPrefix(args.tag.attrs[i].value)) => uses = <<>>

\* C5 witness: <img src="b" href="mailto:x@e"> has pushed the one use of "b"
C5_Witness ==
    /\ TagCalled
    /\ args.tag.name = "img"
    /\ args.tag.attrs = <<[name |-> "src", value |-> <<"b">>],
                          [name |-> "href",
                           value |-> <<"m", "a", "i", "l", "t", "o", ":", "x", "@", "e">>]>>
    /\ Len(ret[1]) = 1
    /\ ret[1][1].kind = "Uses"
    /\ ret[1][1].paragraph = None

\* the attributes of the tag that define an anchor
AnchorAttributes(tag) ==
    LET is_name(attr) == tag.name = "a" /\ attr.name = "name"
        is_id(attr) == attr.name = "id"
    IN  SelectSeq(tag.attrs, is_name) \o SelectSeq(tag.attrs, is_id)

\* C10 as stated: with check_anchors, every id attribute and every name
\* attribute of an 'a' tag pushes one DefinedLink whose href is the document's
\* href followed by '#' and the value, for every attribute value.
C10_Original_EveryValue ==
    (TagCalled /\ args.check_anchors) =>
        LET defs == OfKind(ret[1], "Defines")
            wanted == AnchorAttributes(args.tag)
        IN  /\ Len(defs) = Len(wanted)
            /\ \A k \in 1..Len(defs) :
                   defs[k].href = args.self.href \o <<"#">> \o wanted[k].value

\* C10 amended: with check_anchors, every id attribute and every name attribute
\* of an 'a' tag pushes one DefinedLink whose href is join(true, '#' + value):
\* the document's href followed by '#' and the value when the value is not
\* empty, and the document's href alone, with no fragment, when it is empty.
C10_DefinesAreTheAnchorAttributes ==
    (TagCalled /\ args.check_anchors) =>
        LET defs == OfKind(ret[1], "Defines")
            wanted == AnchorAttributes(args.tag)
        IN  /\ Len(defs) = Len(wanted)
            /\ \A k \in 1..Len(defs) :
                   /\ defs[k] = [kind |-> "Defines",
                                 href |-> join(args.self, TRUE, <<"#">> \o wanted[k].value)]
                   /\ defs[k].href = IF wanted[k].value = <<>>
                                     THEN args.self.href
                                     ELSE args.self.href \o <<"#">> \o wanted[k].value

\* C10 witness: <a name="x" id=""> in the index document 'a' has pushed the
\* definitions 'a#x' and 'a'
C10_Witness ==
    /\ TagCalled
    /\ args.check_anchors
    /\ args.self.href = <<"a">>
    /\ args.tag.name = "a"
    /\ args.tag.attrs = <<[name |-> "name", value |-> <<"x">>],
                          [name |-> "id", value |-> <<>>]>>
    /\ ret[1] = <<Defines(<<"a", "#", "x">>), Defines(<<"a">>)>>

(***************************************************************************)
(* Claims about the scan (under Spec)                                      *)
(***************************************************************************)
\* the positions of the sink the scan pushed
Pushed == (initial_length + 1)..Len(sink)

ClosesParagraph(token) == token.kind = "EndTag" /\ token.name \in {"p", "li", "dt", "dd"}

\* C6: with paragraph tracking, when the close tag of p, li, dt or dd is
\* processed while in_paragraph holds, every UsedLink from last_paragraph_index
\* to the end of the sink receives the fingerprint finish_paragraph returns at
\* that close, every DefinedLink there is unchanged, and afterwards
\* in_paragraph is false and last_paragraph_index is the sink's length.
C6_CloseBackFillsParagraph ==
    [][(get_paragraphs /\ in_paragraph /\ pc = "tokens" /\ ClosesParagraph(last'))
        => /\ Len(sink') = Len(sink)
           /\ \A i \in (last_paragraph_i + 1)..Len(sink) :
                  IF sink[i].kind = "Uses"
                  THEN sink'[i] = [sink[i] EXCEPT !.paragraph = Some(paragraph_walker)]
                  ELSE sink'[i] = sink[i]
           /\ ~in_paragraph'
           /\ last_paragraph_i' = Len(sink')]_vars

\* C6 witness: </p> has closed a paragraph of text "s" that holds two uses,
\* and both carry the fingerprint of "s"
C6_Witness ==
    /\ get_paragraphs
    /\ last = [kind |-> "EndTag", name |-> "p"]
    /\ initial_length = 0
    /\ Len(sink) = 2
    /\ \A i \in 1..2 : /\ sink[i].kind = "Uses"
                       /\ emitted[i].in_paragraph
                       /\ sink[i].paragraph = Some(<<"s">>)
    /\ ~in_paragraph
    /\ last_paragraph_i = 2

\* C7: a UsedLink pushed while in_paragraph is false, and every UsedLink of a
\* scan with get_paragraphs = false, has an absent paragraph in every state of
\* the scan, the one it ends in included.
C7_OutsideParagraphStaysAbsent ==
    \A i \in Pushed :
        (sink[i].kind = "Uses" /\ (~emitted[i].in_paragraph \/ ~get_paragraphs))
            => sink[i].paragraph = None

\* C7 witness: the scan has ended with a use pushed outside any paragraph,
\* still absent, before a use whose paragraph was closed and filled
C7_Witness ==
    /\ pc = "returned"
    /\ get_paragraphs
    /\ initial_length = 0
    /\ Len(sink) = 2
    /\ sink[1].kind = "Uses" /\ ~emitted[1].in_paragraph /\ sink[1].paragraph = None
    /\ sink[2].kind = "Uses" /\ emitted[2].in_paragraph /\ sink[2].paragraph # None

\* the place of a pushed link in the order of one start tag
Rank(link, origin) ==
    CASE link.kind = "Uses" /\ origin.attr \in {"href", "src", "data"} -> 0
      [] link.kind = "Defines" /\ origin.attr = "name" -> 1
      [] link.kind = "Defines" /\ origin.attr = "id" -> 2
      [] OTHER -> -1

\* C8: every step leaves the links already in the sink in place, with their
\* kind, href and path (only appending, so the links are in the order of the
\* start tags), and the links one start tag pushes are its UsedLinks, then the
\* DefinedLink of 'name', then the DefinedLink of 'id'.
C8_AppendedInOrder ==
    [][/\ Len(sink') >= Len(sink)
       /\ \A i \in 1..Len(sink) :
              /\ sink'[i].kind = sink[i].kind
              /\ sink'[i].href = sink[i].href
              /\ sink[i].kind = "Uses" => sink'[i].path = sink[i].path
       /\ Len(emitted') = Len(sink')
       /\ \A i \in (Len(sink) + 1)..Len(sink') :
              /\ Rank(sink'[i], emitted'[i]) >= 0
              /\ \A j \in (i + 1)..Len(sink') :
                     Rank(sink'[i], emitted'[i]) <= Rank(sink'[j], emitted'[j])]_vars

\* C8 witness: the sink holds the use of an href and, behind it, the definition
\* of an id
C8_Witness ==
    /\ pc = "tokens"
    /\ initial_length = 0
    /\ Len(sink) = 2
    /\ sink[1].kind = "Uses" /\ emitted[1].attr = "href"
    /\ sink[2].kind = "Defines" /\ emitted[2].attr = "id"

\* C9: a scan with check_anchors = false pushes no DefinedLink, and the href of
\* every UsedLink it pushes has neither a query string nor a fragment.
C9_NoAnchorsNoDefinitions ==
    ~check_anchors =>
        \A i \in Pushed :
            /\ sink[i].kind = "Uses"
            /\ \A k \in 1..Len(sink[i].href) : sink[i].href[k] \notin {"?", "#"}

\* C9 witness: without check_anchors, a start tag with href="b?q#f" has pushed
\* the use of 'a/b'
C9_Witness ==
    /\ ~check_anchors
    /\ pc = "tokens"
    /\ Pushed # {}
    /\ sink[Len(sink)].kind = "Uses"
    /\ sink[Len(sink)].href = <<"a", "/", "b">>

\* the links the caller's sink held when the scan was called
CallerLinks == SubSeq(sink, 1, initial_length)

\* C11: the scan only appends to the caller's sink: the links the sink held
\* before the call are in place and unmodified in every state (the back-fill
\* included), and while the tokens are processed
\* initial_length <= last_paragraph_i <= Len(sink), so that the back-fill range
\* sink[last_paragraph_i..] is in bounds and starts behind the caller's links.
C11_CallerLinksUntouched ==
    /\ initial_length <= Len(sink)
    /\ CallerLinks \in InitialSinks
    /\ pc = "tokens" => /\ initial_length <= last_paragraph_i
                        /\ last_paragraph_i <= Len(sink)

\* C11 witness: the caller's sink held a use without a paragraph, </p> has
\* back-filled the use the scan pushed behind it, and the caller's use is as
\* it was
C11_Witness ==
    /\ get_paragraphs
    /\ initial_length = 1
    /\ last = [kind |-> "EndTag", name |-> "p"]
    /\ Len(sink) = 2
    /\ sink[2].kind = "Uses" /\ sink[2].paragraph # None
    /\ sink[1] = Uses(<<"o">>, <<"p", "u", "b", "/", "o">>, None)

(***************************************************************************)
(* Claims about the failures of Document::new (under SpecNew)              *)
(***************************************************************************)
\* C12: Document::new with a file path that is not rooted under the root
\* returns an error value to its caller; it does not panic, which would abort
\* the run.
C12_NotUnderRootReturnsError ==
    (NewCalled /\ strip_prefix(args.path, args.base_path) = None)
        => /\ "panic" \notin DOMAIN ret[1]
           /\ "Err" \in DOMAIN ret[1]

(***************************************************************************)
(* Claims about the outcome of the scan (under Spec)                       *)
(***************************************************************************)
\* C13: whatever tokens have been processed, however malformed their
\* structure, the scan accepts the next token (an open tag and a close tag of
\* every name, matched or not, and any other token), a token leaves the scan
\* running with no result, and the end of the tokens can be taken in every
\* state and returns success: no token sequence yields an error.
C13_MalformedMarkupSucceeds ==
    /\ [](pc = "tokens" =>
            /\ ENABLED Done
            /\ ENABLED OtherToken
            /\ \A name \in ScanTagNames :
                   /\ ENABLED StartTag([name |-> name, attrs |-> <<>>])
                   /\ ENABLED EndTag(name)
            /\ \A string \in ScanTexts :
                   ~in_paragraph => ENABLED CharacterTokens(string))
    /\ [][pc = "tokens" =>
             \/ pc' = "tokens" /\ ret' = None
             \/ pc' = "returned" /\ ret' = Some([Ok |-> <<>>])]_vars

\* C13 witness: the scan has returned success with a paragraph still open,
\* after a close tag that closes nothing
C13_Witness ==
    /\ pc = "returned"
    /\ ret = Some([Ok |-> <<>>])
    /\ in_paragraph
    /\ get_paragraphs
    /\ last = [kind |-> "EndTag", name |-> "div"]

(***************************************************************************)
(* Claims about the Hrefs of the links (under SpecTag: a scan's links are  *)
(* the links its start tags push, and their hrefs never change)            *)
(***************************************************************************)
\* whether sub occurs in s
Occurs(sub, s) ==
    \E i \in 0..(Len(s) - Len(sub)) : SubSeq(s, i + 1, i + Len(sub)) = sub

\* the part of an Href before its first '#'
BeforeFragment(href) == SubSeq(href, 1, FirstOf(href, {"#"}) - 1)

\* C14 as stated: no Href of a link pushed, UsedLink or DefinedLink, contains
\* 'http://', 'https://', 'irc://', 'ftp://', 'mailto:' or 'data:', for every
\* document and every attribute value.
C14_Original_NoSchemeInAnyHref ==
    TagCalled =>
        \A i \in 1..Len(ret[1]) :
            \A prefix \in ExcludedPrefixes : ~Occurs(prefix, ret[1][i].href)

\* C14, amended: for a document whose own href contains no '//', every
\* UsedLink pushed has the Href join(check_anchors, v) of a link attribute's
\* value v that starts with none of the six prefixes (a value that starts with
\* one pushes no UsedLink), and no Href of a link pushed contains '://' before
\* its first '#'.
C14_NoSchemeValueIsStored ==
    (TagCalled /\ ~Occurs(<<"/", "/">>, args.self.href)) =>
        /\ \A i \in 1..Len(ret[1]) :
               /\ ~Occurs(<<":", "/", "/">>, BeforeFragment(ret[1][i].href))
               /\ ret[1][i].kind = "Uses" =>
                      \E k \in 1..Len(args.tag.attrs) :
                          /\ args.tag.attrs[k].name = LinkAttribute(args.tag.name)
                          /\ ~HasExcludedPrefix(args.tag.attrs[k].value)
                          /\ ret[1][i].href = join(args.self, args.check_anchors,
                                                   args.tag.attrs[k].value)
        /\ \A k \in 1..Len(args.tag.attrs) :
               (/\ HasExcludedPrefix(args.tag.attrs[k].value)
                /\ \A j \in 1..Len(args.tag.attrs) :
                       j # k => args.tag.attrs[j].name \in {"name", "id"})
                   => OfKind(ret[1], "Uses") = <<>>

\* C14 witness: <a href="data:x" id="data:x"> with check_anchors has pushed no
\* use and the definition of 'a#data:x'
C14_Witness ==
    /\ TagCalled
    /\ args.check_anchors
    /\ args.self.href = <<"a">>
    /\ args.tag.name = "a"
    /\ args.tag.attrs = <<[name |-> "href", value |-> <<"d", "a", "t", "a", ":", "x">>],
                          [name |-> "id", value |-> <<"d", "a", "t", "a", ":", "x">>]>>
    /\ ret[1] = <<Defines(<<"a", "#", "d", "a", "t", "a", ":", "x">>)>>

\* whether s begins or ends with a white space
HasSurroundingWhitespace(s) == s # <<>> /\ (s[1] = " " \/ s[Len(s)] = " ")

\* C15: for a document whose own href has no leading slash, every Href of a
\* link pushed is a path from the site root with no leading slash and no
\* surrounding white space, whatever the attribute values are.
C15_HrefIsSiteRooted ==
    (TagCalled /\ ~starts_with(args.self.href, <<"/">>)) =>
        \A i \in 1..Len(ret[1]) :
            /\ ~starts_with(ret[1][i].href, <<"/">>)
            /\ ~HasSurroundingWhitespace(ret[1][i].href)

(***************************************************************************)
(* Claims about paragraphs (under SpecPar)                                 *)
(***************************************************************************)
\* the uses the scan pushed behind the first paragraph-bearing open tag that
\* no paragraph-bearing close tag has followed
UsesSinceOpened(links) ==
    {i \in (opened.at + 1)..Len(links) : links[i].kind = "Uses"}

\* C16 as stated: while the close tag of the paragraph-bearing tag that was
\* opened does not arrive (another token is processed, a close tag of another
\* name included), in_paragraph stays true and the uses pushed since that open
\* tag stay without a paragraph.
C16_Original_OnlyOwnCloseCloses ==
    [][(/\ pc = "tokens"
        /\ opened.name # ""
        /\ ~(last'.kind = "EndTag" /\ last'.name = opened.name))
           => /\ in_paragraph'
              /\ \A i \in UsesSinceOpened(sink') : sink'[i].paragraph = None]_vars

\* C16, amended: when a paragraph-bearing tag has been opened and no close tag
\* of a paragraph-bearing tag ('p', 'li', 'dt', 'dd', of whatever name) has
\* arrived behind it, in_paragraph is true and the uses pushed since that open
\* tag have no paragraph, in every state up to and including the one the scan
\* returns in.
C16_NoParagraphCloseStaysOpen ==
    (pc \in {"tokens", "returned"} /\ opened.name # "") =>
        /\ in_paragraph
        /\ \A i \in UsesSinceOpened(sink) : sink[i].paragraph = None

\* C16 witness: with paragraph tracking, the scan has returned behind <p>, a
\* use and </a>: the paragraph is open and the use has no paragraph
C16_Witness ==
    /\ pc = "returned"
    /\ get_paragraphs
    /\ opened.name = "p"
    /\ last = [kind |-> "EndTag", name |-> "a"]
    /\ in_paragraph
    /\ UsesSinceOpened(sink) # {}
    /\ sink[Len(sink)].paragraph = None

\* C17: with paragraph tracking, when a paragraph closes the fingerprint that
\* is back-filled is the text of the text tokens received since the most
\* recent paragraph-bearing open tag, in their order of arrival, and of no
\* other text.
C17_FingerprintIsTextSinceOpen ==
    [][(get_paragraphs /\ in_paragraph /\ pc = "tokens" /\ ClosesParagraph(last'))
        => /\ opened.name # ""
           /\ ParagraphWalker_finish_paragraph(paragraph_walker).paragraph = opened.text
           /\ \A i \in (last_paragraph_i + 1)..Len(sink) :
                  sink[i].kind = "Uses" => sink'[i].paragraph = Some(opened.text)]_vars

\* C17 witness: <p>, a use, "t", </p>, <li>, a use, "s", "t", </li>: the second
\* use has the fingerprint of "st", with nothing of the "t" before <li>
C17_Witness ==
    /\ get_paragraphs
    /\ initial_length = 0
    /\ Len(sink) = 2
    /\ sink[1].paragraph = Some(<<"t">>)
    /\ sink[2].paragraph = Some(<<"s", "t">>)
    /\ last = [kind |-> "EndTag", name |-> "li"]

\* C18: once a use has a paragraph, every step leaves it that paragraph.
C18_ParagraphAssignedOnce ==
    [][\A i \in 1..Len(sink) :
           (sink[i].kind = "Uses" /\ sink[i].paragraph # None)
               => /\ i <= Len(sink')
                  /\ sink'[i].kind = "Uses"
                  /\ sink'[i].paragraph = sink[i].paragraph]_vars

\* C18 witness: the scan has returned with the use of a first paragraph still
\* carrying "s", behind a second paragraph that was closed with the text "t"
C18_Witness ==
    /\ pc = "returned"
    /\ initial_length = 0
    /\ Len(sink) = 2
    /\ sink[1].paragraph = Some(<<"s">>)
    /\ sink[2].paragraph = Some(<<"t">>)

(***************************************************************************)
(* Claims about a failed read (under Spec)                                 *)
(***************************************************************************)
\* the scan has returned an error value
Failed == pc = "returned" /\ ret # None /\ "Err" \in DOMAIN ret[1]

\* C19: when the scan fails, because the bytes cannot be read or are not valid
\* UTF-8, no token has been processed and the caller's sink is what it was
\* when the scan was called; and once a token is being processed the scan has
\* no error to return.
C19_FailureLeavesSinkAsItWas ==
    /\ Failed =>
           /\ ret[1].Err \in {"io error", "file contained invalid utf8"}
           /\ sink \in InitialSinks
           /\ Len(sink) = initial_length
           /\ \A i \in 1..Len(sink) : emitted[i] = CallerOrigin
           /\ last = NotEndTag
           /\ opened = NotOpened
           /\ ~in_paragraph
    /\ pc = "tokens" => ret = None

\* C19 witness: the scan called with a sink of one link has returned that the
\* file contained invalid UTF-8, and the sink holds that one link
C19_Witness ==
    /\ Failed
    /\ ret[1].Err = "file contained invalid utf8"
    /\ initial_length = 1
    /\ sink = <<Uses(<<"o">>, <<"p", "u", "b", "/", "o">>, None)>>

(***************************************************************************)
(* Claims about references to the document itself (under SpecTag)          *)
(***************************************************************************)
\* whether a value is '#' followed by a non-empty anchor name
IsFragmentOnly(value) == Len(value) > 1 /\ value[1] = "#"

\* C20: for every document, an index document at the site root included,
\* join(false, '') is the document's own href; and with check_anchors the use
\* pushed for a link attribute of value '#x' and the definition pushed for an
\* id or name attribute of value 'x', x not empty, have the document's href
\* followed by '#x' as their Href, the same for both.
C20_SelfReferenceMeetsDefinition ==
    TagCalled =>
        LET uses == OfKind(ret[1], "Uses")
            use_attrs == UseAttributes(args.tag)
            defs == OfKind(ret[1], "Defines")
            def_attrs == AnchorAttributes(args.tag)
        IN  /\ join(args.self, FALSE, <<>>) = args.self.href
            /\ args.check_anchors =>
                   /\ Len(uses) = Len(use_attrs)
                   /\ Len(defs) = Len(def_attrs)
                   /\ \A k \in 1..Len(uses) :
                          IsFragmentOnly(use_attrs[k].value)
                              => uses[k].href = args.self.href \o use_attrs[k].value
                   /\ \A m \in 1..Len(defs) :
                          def_attrs[m].value # <<>>
                              => defs[m].href
                                     = args.self.href \o <<"#">> \o def_attrs[m].value
                   /\ \A k \in 1..Len(uses) : \A m \in 1..Len(defs) :
                          (/\ def_attrs[m].value # <<>>
                           /\ use_attrs[k].value = <<"#">> \o def_attrs[m].value)
                              => uses[k].href = defs[m].href

\* C20 witness: <a id="x" name="x" href="#x"> in the index document at the
\* site root has pushed the use and the two definitions of '#x'
C20_Witness ==
    /\ TagCalled
    /\ args.check_anchors
    /\ args.self.href = <<>>
    /\ args.self.is_index_html
    /\ args.tag.name = "a"
    /\ args.tag.attrs = <<[name |-> "id", value |-> <<"x">>],
                          [name |-> "name", value |-> <<"x">>],
                          [name |-> "href", value |-> <<"#", "x">>]>>
    /\ ret[1] = <<Uses(<<"#", "x">>, args.self.path, None),
                  Defines(<<"#", "x">>), Defines(<<"#", "x">>)>>

====
